---- MODULE Spec2Model ----
(***************************************************************************)
(* Model of the ASR_app audio pipeline: the StateManager finite-state      *)
(* machine (models/app_state.py), the AudioProcessor capture and           *)
(* simulation engines with their background threads                        *)
(* (models/audio_processor.py) and the TranscriptionService metrics        *)
(* (models/transcription_service.py).                                      *)
(*                                                                         *)
(* The GUI thread calls the AudioProcessor methods one at a time; every    *)
(* background thread is a small program counter machine whose steps        *)
(* interleave with the GUI thread's calls.                                 *)
(***************************************************************************)
EXTENDS Integers, Sequences, FiniteSets, TLC

\* ------------------------------------------------------------------ bounds
\* capture threads / hardware input streams the model can tell apart
MaxCapThreads == 2
\* frames the input hardware delivers in one run of the capture engine
MaxFrames == 2
\* frames the input hardware delivers in one run of all modes
MaxAppFrames == 1
\* largest bounded capacity of the frame queue handed to start_recording
MaxSize == 1
\* simulation threads the model can tell apart
MaxSimThreads == 2
\* background threads alive at once in the specification of all modes
MaxLiveThreads == 1
\* chunks in the longest simulated file
MaxFileChunks == 1
\* direct set_state calls in one run of the state-machine specification
MaxSetCalls == 4
\* maxsize of the volume queue (the single-slot VolumeChannel)
VolumeSize == 1
\* chunks handed to process_audio_chunk in one run
MaxChunks == 2
\* longest duration, in clock ticks, of one timed operation
MaxDuration == 2

\* callbacks that may subscribe to the event bus
MaxCallbacks == 2
\* on() calls in one run
MaxListeners == 3
\* direct calls of update_performance_metrics in one run
MaxUpdates == 3
\* queue-pop timeouts of the transcription workers in one run
MaxTimeouts == 1
\* playback threads followed (audio_processor.py 240-244)
MaxPlayThreads == 2
\* transcription workers followed (transcription_service.py 110-114)
MaxWorkers == 1

CapIds == 1..MaxCapThreads
PlayIds == 1..MaxPlayThreads
WorkIds == 1..MaxWorkers
SimIds == 1..MaxSimThreads
ModeIds == 1..MaxLiveThreads

\* ------------------------------------------------------- models/app_state.py
AppState == {"IDLE", "RECORDING", "RECORDING_PAUSED", "PLAYING", "SIMULATING"}

valid_transitions ==
    [s \in AppState |->
        CASE s = "IDLE"             -> {"RECORDING", "PLAYING", "SIMULATING"}
          [] s = "RECORDING"        -> {"IDLE", "RECORDING_PAUSED"}
          [] s = "RECORDING_PAUSED" -> {"RECORDING", "IDLE"}
          [] s = "PLAYING"          -> {"IDLE"}
          [] s = "SIMULATING"       -> {"IDLE"}]

\* set_state with a self-transition taken for a valid edge
set_state_self(cur, new) ==
    IF new = cur \/ new \in valid_transitions[cur]
    THEN [state |-> new, ok |-> TRUE]
    ELSE [state |-> cur, ok |-> FALSE]

\* StateManager.set_state: check-and-assign; the result carries the state
\* after the call and the boolean the call returns.
set_state(cur, new) ==
    IF new \in valid_transitions[cur]
    THEN [state |-> new, ok |-> TRUE]
    ELSE [state |-> cur, ok |-> FALSE]

\* is_recording that forgets the paused state
is_recording_unpaused(s) == s = "RECORDING"

\* is_recording mistaken for is_active
is_recording_active(s) == s # "IDLE"

is_recording(s) == s \in {"RECORDING", "RECORDING_PAUSED"}

\* is_playing that never tells a loop to stop
is_playing_ignored(s) == TRUE

is_playing(s) == s = "PLAYING"

\* is_simulating that tests the wrong mode
is_simulating_playing(s) == s = "PLAYING"

\* is_simulating answering for the wrong state
is_simulating_idle(s) == s = "IDLE"

is_simulating(s) == s = "SIMULATING"

is_active(s) == s # "IDLE"

is_paused(s) == s = "RECORDING_PAUSED"

\* --------------------------------------- models/transcription_service.py
\* the operations process_audio_chunk times with track_processing_time
TimedOps == {"array_conversion", "api_call", "processing"}

\* A metric name is the sequence of the pieces it is formatted from, so
\* that startswith and endswith are tests of its first and last piece.
EndsWith(name, piece) == name[Len(name)] = piece

StartsWith(name, piece) == name[1] = piece

\* the dictionary d with d[name] = value
Store(d, name, value) ==
    [k \in DOMAIN d \cup {name} |-> IF k = name THEN value ELSE d[k]]

\* the dictionary d without the key name: d.pop(name, None)
Pop(d, name) == [k \in DOMAIN d \ {name} |-> d[k]]

\* update_performance_metrics(metric_name, value): the branches in the
\* order the code tests them.  A "_times" metric is a list, with its
\* average stored under "avg_..._time".
update_performance_metrics(d, name, value) ==
    LET upd ==
          IF EndsWith(name, "_times")
          THEN LET old == IF name \in DOMAIN d THEN d[name] ELSE <<>>
                   lst == Append(old, value)
                   Sum[i \in 0..Len(lst)] ==
                       IF i = 0 THEN 0 ELSE Sum[i - 1] + lst[i]
                   avg == <<"avg_">> \o SubSeq(name, 1, Len(name) - 1)
                                     \o <<"_time">>
               IN  Store(Store(d, name, lst), avg, Sum[Len(lst)] \div Len(lst))
          ELSE IF EndsWith(name, "_time")
          THEN Store(d, name, value)
          ELSE IF StartsWith(name, "total_") \/ EndsWith(name, "_count")
          THEN Store(d, name, (IF name \in DOMAIN d THEN d[name] ELSE 0) + value)
          ELSE Store(d, name, value)
    IN  Pop(upd, <<"NO METRICS INITIALIZED">>)

\* track_processing_time(operation_name, func) once func has returned
\* after `t` ticks: the three updates, in order
track_processing_time(d, op, t) ==
    LET d1 == update_performance_metrics(d, <<op, "_time">>, t)
        d2 == update_performance_metrics(d1, <<"total_", op, "_time">>, t)
    IN  update_performance_metrics(d2, <<op, "_calls">>, 1)

\* ------------------------------------------------------------------- state
VARIABLES
    state,          \* StateManager._current_state
    setCall,        \* the set_state call made by the last step, or NoCall
    setHistory,     \* states visited by direct set_state calls (SpecSM)
    ret,            \* the AudioProcessor call that returned in the last step
    emitted,        \* the EventBus events emitted by the last step, in order
    exited,         \* the background thread that returned in the last step
    mainPc,         \* position of the GUI thread: "idle" or inside a call
    mainPre,        \* the state in which the call in progress was made
    capPc,          \* capture thread t: position in _record_audio_thread
    capData,        \* capture thread t: the local `data` of _record_frame
    streamOpen,     \* hardware input stream opened by capture thread t is open
    stream,         \* AudioProcessor.stream: 0 is None, else the stream's id
    record_thread,  \* AudioProcessor.record_thread while that thread is
                    \* alive; 0 is None or a thread that has returned
    frames,         \* AudioProcessor.frames, the session buffer
    audio_queue,    \* contents of the queue handed to start_recording
    maxsize,        \* its maxsize; 0 is Python's "unbounded"
    hwFrames,       \* frames the input hardware has delivered so far
    volume_set,     \* AudioProcessor.volume_queue has been set (is not None)
    volume_queue,   \* contents of the volume queue
    simPc,          \* simulation thread t: position in _simulate_audio_thread
    simLeft,        \* simulation thread t: chunks of its file not yet read
    simWf,          \* simulation thread t: its wave handle wf
    performance_metrics,  \* TranscriptionService.performance_metrics
    clock,          \* time.time(), in ticks
    nChunks,        \* calls of process_audio_chunk so far
    nErrors,        \* of which raised inside
    sumTime,        \* per timed operation, the sum of its measured durations
    wav_file,       \* what is on disk under the path given to save_recording
    playPc,         \* playback thread t: position in _play_audio_thread
    playLeft,       \* playback thread t: chunks of its file not yet read
    playStream,     \* playback thread t: its output stream
    playWf,         \* playback thread t: its wave handle wf
    playCb,         \* playback thread t: an on_complete was passed
    playCalls,      \* playback thread t: calls of its on_complete so far
    playEnd,        \* playback thread t: why its loop ended, "none" before
    workPc,         \* transcription worker t: position in _transcription_thread
    workData,       \* transcription worker t: the chunk it has popped
    mainArg,        \* the new_state argument of the set_state call in progress
    cb_log,         \* the calls of the state-change callback so far, in order
    update_ui,      \* the update_ui argument of the last direct metric update
    update_failed,  \* whether that update raised inside its try block
    listeners,      \* EventEmitter.listeners: event name -> list of callbacks
    registered,     \* every on() call so far, in order, as <<event name, callback>>
    event_name,     \* the event name of the last emit
    called          \* the callbacks the last emit called, in order

outVars == <<setCall, ret, emitted, exited>>

mainVars == <<setHistory, mainPc, mainPre>>

recVars == <<capPc, capData, streamOpen, stream, record_thread, frames,
             audio_queue, maxsize, hwFrames, volume_set, volume_queue>>

simVars == <<simPc, simLeft, simWf>>

tsVars == <<performance_metrics, clock, nChunks, nErrors, sumTime>>

fsVars == <<wav_file>>

playVars == <<playPc, playLeft, playStream, playWf, playCb, playCalls,
              playEnd>>

workVars == <<workPc, workData>>

cbVars == <<mainArg, cb_log>>

umVars == <<update_ui, update_failed>>

evVars == <<listeners, registered, event_name, called>>

extVars == <<fsVars, playVars, workVars, cbVars, umVars, evVars>>

vars == <<state, outVars, mainVars, recVars, simVars, tsVars, extVars>>

NoCall == [from |-> "IDLE", to |-> "IDLE", ok |-> "none"]

Call(from, to) ==
    [from |-> from, to |-> to,
     ok |-> IF set_state(from, to).ok THEN "True" ELSE "False"]

NoRet == [op |-> "none", pre |-> "IDLE", val |-> "None"]

Ret(op, pre, val) == [op |-> op, pre |-> pre, val |-> val]

\* A thread that returns leaves the model: its slot is free again, and
\* `exited` tells, for the step in which it returned, which thread it was
\* and in what condition it left the resource it had opened.
NoExit == [kind |-> "none", id |-> 0, res |-> "none"]

Exit(kind, id, res) == [kind |-> kind, id |-> id, res |-> res]

\* -------------------------------------------------------------------- Init
\* The session buffer and the frame queue after construction: empty, and
\* the hardware has delivered nothing.
InitBuffers ==
    /\ hwFrames = 0
    /\ frames = <<>>
    /\ audio_queue = <<>>

\* The other fields after construction: no thread, no stream.
InitRest ==
    /\ setCall = NoCall
    /\ setHistory = <<"IDLE">>
    /\ ret = NoRet
    /\ emitted = <<>>
    /\ exited = NoExit
    /\ mainPc = "idle"
    /\ mainPre = "IDLE"
    /\ capPc = [t \in CapIds |-> "none"]
    /\ capData = [t \in CapIds |-> 0]
    /\ streamOpen = [t \in CapIds |-> FALSE]
    /\ stream = 0
    /\ record_thread = 0
    /\ volume_queue = <<>>
    /\ simPc = [t \in SimIds |-> "none"]
    /\ simLeft = [t \in SimIds |-> 0]
    /\ simWf = [t \in SimIds |-> "none"]
    /\ performance_metrics = (<<"NO METRICS INITIALIZED">> :> 0)
    /\ clock = 0
    /\ nChunks = 0
    /\ nErrors = 0
    /\ sumTime = [op \in TimedOps \cup {"chunk"} |-> 0]
    /\ wav_file = "absent"
    /\ playPc = [t \in PlayIds |-> "none"]
    /\ playLeft = [t \in PlayIds |-> 0]
    /\ playStream = [t \in PlayIds |-> "none"]
    /\ playWf = [t \in PlayIds |-> "none"]
    /\ playCb = [t \in PlayIds |-> FALSE]
    /\ playCalls = [t \in PlayIds |-> 0]
    /\ playEnd = [t \in PlayIds |-> "none"]
    /\ workPc = [t \in WorkIds |-> "none"]
    /\ workData = [t \in WorkIds |-> 0]
    /\ mainArg = "IDLE"
    /\ cb_log = <<>>
    /\ update_ui = FALSE
    /\ update_failed = FALSE
    /\ listeners = <<>>
    /\ registered = <<>>
    /\ event_name = "none"
    /\ called = <<>>

\* The fields after construction (AudioProcessor.__init__,
\* TranscriptionService.__init__): no thread, no stream, empty buffers.
InitFields == InitBuffers /\ InitRest

\* After construction (StateManager.__init__): Idle.
InitObjects == state = "IDLE" /\ InitFields

\* The application as main.py and AppController wire it: the frame queue is
\* queue.Queue(), unbounded, and nothing sets volume_queue.
Init == InitObjects /\ maxsize = 0 /\ volume_set = FALSE

\* Any embedding of AudioProcessor: the frame queue handed to start_recording
\* is unbounded (0) or bounded, and volume_queue is None or has been set.
InitRec == InitObjects /\ maxsize \in 0..MaxSize /\ volume_set \in BOOLEAN

\* a capture thread that has been started and has not returned
CapAlive(t) == capPc[t] # "none"

\* an id the model can give to a new capture thread: no live thread has it
\* and no stream opened under it is still open or referenced
CapFree(t) == ~CapAlive(t) /\ ~streamOpen[t] /\ stream # t

\* the background threads alive
LiveThreads ==
    Cardinality({t \in CapIds : CapAlive(t)})
      + Cardinality({t \in SimIds : simPc[t] # "none"})
      + Cardinality({t \in PlayIds : playPc[t] \notin {"none", "done"}})
      + Cardinality({t \in WorkIds : workPc[t] # "none"})

\* queue.Queue: put blocks while maxsize > 0 and qsize() >= maxsize
Full(q, m) == m > 0 /\ Len(q) >= m

\* ------------------------------------------- AudioProcessor: recording API
\* start_recording(input_queue); the new thread takes the least free id of
\* Ids, and the model follows at most `limit` live threads
StartRecording(Ids, limit) ==
    /\ mainPc = "idle"
    /\ LET r == set_state(state, "RECORDING") IN
       /\ setCall' = Call(state, "RECORDING")
       /\ state' = r.state
       /\ IF ~r.ok
          THEN /\ ret' = Ret("start_recording", state, "False")
               /\ UNCHANGED <<capPc, capData, record_thread, frames>>
          ELSE \E t \in Ids :
               /\ LiveThreads < limit
               /\ CapFree(t)
               /\ \A u \in Ids : CapFree(u) => t <= u
               /\ frames' = <<>>
               /\ record_thread' = t
               /\ capPc' = [capPc EXCEPT ![t] = "open"]
               /\ capData' = [capData EXCEPT ![t] = 0]
               /\ ret' = Ret("start_recording", state, "True")
    /\ emitted' = <<>>
    /\ exited' = NoExit
    /\ UNCHANGED extVars
    /\ UNCHANGED <<mainVars, streamOpen, stream, audio_queue, maxsize, hwFrames,
                   volume_set, volume_queue, simVars, tsVars>>

\* a close that clears the handle and leaves the stream itself open
ForceCloseHandleOnly ==
    /\ stream' = 0
    /\ UNCHANGED streamOpen

\* the defensive close at the end of stop_recording: `if self.stream: ...`
ForceClose ==
    /\ streamOpen' = IF stream # 0 THEN [streamOpen EXCEPT ![stream] = FALSE]
                     ELSE streamOpen
    /\ stream' = 0

\* stop_recording up to the join: the is_recording guard, set_state(IDLE),
\* and, when record_thread is not alive, the rest of the method as well
StopRecording ==
    /\ mainPc = "idle"
    /\ IF ~is_recording(state)
       THEN /\ ret' = Ret("stop_recording", state, "False")
            /\ setCall' = NoCall
            /\ UNCHANGED <<state, mainPc, mainPre, streamOpen, stream>>
       ELSE /\ setCall' = Call(state, "IDLE")
            /\ state' = set_state(state, "IDLE").state
            /\ IF record_thread # 0 /\ CapAlive(record_thread)
               THEN /\ mainPc' = "stop_join"
                    /\ mainPre' = state
                    /\ ret' = NoRet
                    /\ UNCHANGED <<streamOpen, stream>>
               ELSE /\ ForceClose
                    /\ ret' = Ret("stop_recording", state, "True")
                    /\ UNCHANGED <<mainPc, mainPre>>
    /\ emitted' = <<>>
    /\ exited' = NoExit
    /\ UNCHANGED extVars
    /\ UNCHANGED <<setHistory, capPc, capData, record_thread, frames,
                   audio_queue, maxsize, hwFrames, volume_set, volume_queue, simVars, tsVars>>

\* record_thread.join(timeout=1.0) returns, because the thread ended or
\* because the second elapsed; then the defensive close and `return True`
StopRecordingJoin ==
    /\ mainPc = "stop_join"
    /\ mainPc' = "idle"
    /\ ForceClose
    /\ ret' = Ret("stop_recording", mainPre, "True")
    /\ setCall' = NoCall
    /\ emitted' = <<>>
    /\ exited' = NoExit
    /\ UNCHANGED extVars
    /\ UNCHANGED <<state, setHistory, mainPre, capPc, capData, record_thread,
                   frames, audio_queue, maxsize, hwFrames, volume_set, volume_queue,
                   simVars, tsVars>>

\* toggle_target that never resumes: paused, it asks for the paused state
toggle_target_stuck(s) ==
    CASE s = "RECORDING"        -> "RECORDING_PAUSED"
      [] s = "RECORDING_PAUSED" -> "RECORDING_PAUSED"
      [] OTHER                  -> "none"

\* toggle_target with no final else: whatever is not Recording is resumed
toggle_target_else(s) ==
    CASE s = "RECORDING"        -> "RECORDING_PAUSED"
      [] OTHER                  -> "RECORDING"

\* the state toggle_pause asks set_state for, "none" when it asks for nothing
toggle_target(s) ==
    CASE s = "RECORDING"        -> "RECORDING_PAUSED"
      [] s = "RECORDING_PAUSED" -> "RECORDING"
      [] OTHER                  -> "none"

\* toggle_pause
TogglePause ==
    /\ mainPc = "idle"
    /\ LET to == toggle_target(state) IN
       IF to = "none"
       THEN /\ ret' = Ret("toggle_pause", state, "False")
            /\ setCall' = NoCall
            /\ UNCHANGED state
       ELSE /\ setCall' = Call(state, to)
            /\ state' = set_state(state, to).state
            /\ ret' = Ret("toggle_pause", state, "True")
    /\ emitted' = <<>>
    /\ exited' = NoExit
    /\ UNCHANGED extVars
    /\ UNCHANGED <<mainVars, recVars, simVars, tsVars>>

\* get_volume_level written with the blocking volume_queue.get()
GetVolumeLevelBlocking ==
    /\ mainPc = "idle"
    /\ volume_set
    /\ volume_queue # <<>>
    /\ ret' = Ret("get_volume_level", state, "value")
    /\ volume_queue' = Tail(volume_queue)
    /\ setCall' = NoCall
    /\ emitted' = <<>>
    /\ exited' = NoExit
    /\ UNCHANGED extVars
    /\ UNCHANGED <<state, mainVars, capPc, capData, streamOpen, stream,
                   record_thread, frames, audio_queue, maxsize, hwFrames, volume_set,
                   simVars, tsVars>>

\* get_volume_level: volume_queue.get_nowait(), None on queue.Empty; with
\* volume_queue still None the attribute access raises
GetVolumeLevel ==
    /\ mainPc = "idle"
    /\ IF ~volume_set
       THEN /\ ret' = Ret("get_volume_level", state, "raise")
            /\ UNCHANGED volume_queue
       ELSE IF volume_queue = <<>>
       THEN /\ ret' = Ret("get_volume_level", state, "None")
            /\ UNCHANGED volume_queue
       ELSE /\ ret' = Ret("get_volume_level", state, "value")
            /\ volume_queue' = Tail(volume_queue)
    /\ setCall' = NoCall
    /\ emitted' = <<>>
    /\ exited' = NoExit
    /\ UNCHANGED extVars
    /\ UNCHANGED <<state, mainVars, capPc, capData, streamOpen, stream,
                   record_thread, frames, audio_queue, maxsize, hwFrames, volume_set,
                   simVars, tsVars>>

\* ------------------------------- AudioProcessor._record_audio_thread (t)
\* what a step of the capture thread that calls nothing outside leaves alone
CapStep ==
    /\ ret' = NoRet
    /\ exited' = NoExit
    /\ UNCHANGED extVars
    /\ setCall' = NoCall
    /\ emitted' = <<>>
    /\ UNCHANGED <<state, mainVars, simVars, tsVars>>

\* self.stream = self.audio.open(...); a failing open goes to the handlers
CapOpen(t) ==
    /\ capPc[t] = "open"
    /\ \/ /\ streamOpen' = [streamOpen EXCEPT ![t] = TRUE]
          /\ stream' = t
          /\ capPc' = [capPc EXCEPT ![t] = "loop"]
       \/ /\ capPc' = [capPc EXCEPT ![t] = "finally"]
          /\ UNCHANGED <<streamOpen, stream>>
    /\ CapStep
    /\ UNCHANGED <<capData, record_thread, frames, audio_queue, maxsize, hwFrames,
                   volume_set, volume_queue>>

\* while not stop_event.is_set() and is_recording(): stop_event is never
\* set; paused, the thread sleeps 0.1 s and tests again
CapLoop(t) ==
    /\ capPc[t] = "loop"
    /\ capPc' = [capPc EXCEPT ![t] =
                   IF ~is_recording(state) THEN "finally"
                   ELSE IF state = "RECORDING" THEN "read" ELSE "loop"]
    /\ CapStep
    /\ UNCHANGED <<capData, streamOpen, stream, record_thread, frames,
                   audio_queue, maxsize, hwFrames, volume_set, volume_queue>>

\* _record_frame: data = self.stream.read(...); self.frames.append(data).
\* The read raises when self.stream is None or closed, or the driver fails.
CapRead(t, limit) ==
    /\ capPc[t] = "read"
    /\ \/ /\ stream # 0 /\ streamOpen[stream]
          /\ hwFrames < limit
          /\ hwFrames' = hwFrames + 1
          /\ frames' = Append(frames, hwFrames')
          /\ capData' = [capData EXCEPT ![t] = hwFrames']
          /\ capPc' = [capPc EXCEPT ![t] = "put"]
       \/ /\ capPc' = [capPc EXCEPT ![t] = "finally"]
          /\ UNCHANGED <<frames, capData, hwFrames>>
    /\ CapStep
    /\ UNCHANGED <<streamOpen, stream, record_thread, audio_queue, maxsize,
                   volume_set, volume_queue>>

\* a put that adds at the head of the queue
put_first(q, item) == <<item>> \o q

\* queue.Queue.put(item) on a queue that is not full: item joins at the tail
put(q, item) == Append(q, item)

\* _record_frame: self.audio_queue.put(data), a blocking put: it waits while
\* the queue is full and never raises queue.Full
CapPut(t) ==
    /\ capPc[t] = "put"
    /\ ~Full(audio_queue, maxsize)
    /\ audio_queue' = put(audio_queue, capData[t])
    /\ capPc' = [capPc EXCEPT ![t] = "volume"]
    /\ CapStep
    /\ UNCHANGED <<capData, streamOpen, stream, record_thread, frames,
                   maxsize, hwFrames, volume_set, volume_queue>>

\* _record_frame: volume_queue.put_nowait(volume), and on queue.Full the
\* blocking volume_queue.put(volume); with volume_queue None it raises
CapVolume(t) ==
    /\ capPc[t] = "volume"
    /\ IF ~volume_set
       THEN /\ capPc' = [capPc EXCEPT ![t] = "finally"]
            /\ UNCHANGED volume_queue
       ELSE /\ ~Full(volume_queue, VolumeSize)
            /\ volume_queue' = Append(volume_queue, capData[t])
            /\ capPc' = [capPc EXCEPT ![t] = "loop"]
    /\ capData' = [capData EXCEPT ![t] = 0]
    /\ CapStep
    /\ UNCHANGED <<streamOpen, stream, record_thread, frames, audio_queue,
                   maxsize, hwFrames, volume_set>>

\* finally: if self.stream: stop_stream(); close(); self.stream = None.
\* The thread returns; `exited` tells whether the stream it had opened
\* itself is open, closed or was never opened.
CapFinally(t) ==
    /\ capPc[t] = "finally"
    /\ ForceClose
    /\ capPc' = [capPc EXCEPT ![t] = "none"]
    /\ record_thread' = IF record_thread = t THEN 0 ELSE record_thread
    /\ exited' = Exit("capture", t, IF streamOpen'[t] THEN "open" ELSE "closed")
    /\ UNCHANGED extVars
    /\ ret' = NoRet
    /\ setCall' = NoCall
    /\ emitted' = <<>>
    /\ UNCHANGED <<state, mainVars, simVars, tsVars>>
    /\ UNCHANGED <<capData, frames, audio_queue, maxsize, hwFrames, volume_set,
                   volume_queue>>

CaptureThread(t, limit) ==
    \/ CapOpen(t)
    \/ CapLoop(t)
    \/ CapRead(t, limit)
    \/ CapPut(t)
    \/ CapVolume(t)
    \/ CapFinally(t)

\* -------------------------------------------- AudioProcessor: playback API
\* activate_playback: the result of set_state is not looked at
ActivatePlayback ==
    /\ mainPc = "idle"
    /\ IF ~is_playing(state)
       THEN /\ setCall' = Call(state, "PLAYING")
            /\ state' = set_state(state, "PLAYING").state
            /\ ret' = Ret("activate_playback", state, "True")
       ELSE /\ setCall' = NoCall
            /\ ret' = Ret("activate_playback", state, "False")
            /\ UNCHANGED state
    /\ emitted' = <<>>
    /\ exited' = NoExit
    /\ UNCHANGED extVars
    /\ UNCHANGED <<mainVars, recVars, simVars, tsVars>>

\* stop_playback
StopPlayback ==
    /\ mainPc = "idle"
    /\ IF state = "PLAYING"
       THEN /\ setCall' = Call(state, "IDLE")
            /\ state' = set_state(state, "IDLE").state
            /\ ret' = Ret("stop_playback", state, "True")
       ELSE /\ setCall' = NoCall
            /\ ret' = Ret("stop_playback", state, "False")
            /\ UNCHANGED state
    /\ emitted' = <<>>
    /\ exited' = NoExit
    /\ UNCHANGED extVars
    /\ UNCHANGED <<mainVars, recVars, simVars, tsVars>>

\* ------------------------------------------ AudioProcessor: simulation API
SimAlive(t) == simPc[t] # "none"

\* start_simulation(file_path, transcription_service): the file has `n`
\* chunks; the result of set_state is not looked at and the thread is
\* started whenever the state was not Simulating.  Returns None.  The new
\* thread takes the least free id of Ids, within `limit` live threads.
StartSimulation(Ids, limit) ==
    /\ mainPc = "idle"
    /\ IF ~is_simulating(state)
       THEN /\ setCall' = Call(state, "SIMULATING")
            /\ state' = set_state(state, "SIMULATING").state
            /\ \E t \in Ids, n \in 0..MaxFileChunks :
                 /\ LiveThreads < limit
                 /\ ~SimAlive(t)
                 /\ \A u \in Ids : ~SimAlive(u) => t <= u
                 /\ simPc' = [simPc EXCEPT ![t] = "open"]
                 /\ simLeft' = [simLeft EXCEPT ![t] = n]
                 /\ simWf' = [simWf EXCEPT ![t] = "none"]
       ELSE /\ setCall' = NoCall
            /\ UNCHANGED <<state, simVars, tsVars>>
    /\ ret' = Ret("start_simulation", state, "None")
    /\ emitted' = <<>>
    /\ exited' = NoExit
    /\ UNCHANGED extVars
    /\ UNCHANGED <<mainVars, recVars, tsVars>>

\* stop_simulation
StopSimulation ==
    /\ mainPc = "idle"
    /\ IF is_simulating(state)
       THEN /\ setCall' = Call(state, "IDLE")
            /\ state' = set_state(state, "IDLE").state
            /\ emitted' = <<"update_status:Simulation stopped.">>
            /\ ret' = Ret("stop_simulation", state, "True")
       ELSE /\ setCall' = NoCall
            /\ emitted' = <<>>
            /\ ret' = Ret("stop_simulation", state, "False")
            /\ UNCHANGED state
    /\ exited' = NoExit
    /\ UNCHANGED extVars
    /\ UNCHANGED <<mainVars, recVars, simVars, tsVars>>

\* ------------------------------ AudioProcessor._simulate_audio_thread (t)
\* what every step of the simulation thread leaves alone
SimStep ==
    /\ ret' = NoRet
    /\ exited' = NoExit
    /\ UNCHANGED extVars
    /\ UNCHANGED <<mainVars, recVars, tsVars>>

\* _audio_consistency_check, wave.open and the "Streaming..." status; a
\* failure of the conversion or of the open leaves wf None and runs the
\* except clause, which emits `error` (a failing _audio_consistency_check
\* has emitted one `error` itself before)
SimOpen(t) ==
    /\ simPc[t] = "open"
    /\ \/ /\ simWf' = [simWf EXCEPT ![t] = "open"]
          /\ simPc' = [simPc EXCEPT ![t] = "loop"]
          /\ emitted' = <<"update_status:Streaming simulated audio...">>
       \/ /\ simPc' = [simPc EXCEPT ![t] = "fin_check"]
          /\ emitted' \in {<<"error">>, <<"error", "error">>}
          /\ UNCHANGED simWf
    /\ SimStep /\ setCall' = NoCall
    /\ UNCHANGED <<state, simLeft>>

\* One iteration of the simulation loop: the test of is_simulating(), then
\* wf.readframes (break at the end of the file), np.frombuffer,
\* online.insert_audio_chunk, online.process_iter, the transcript event
\* when result[0] is not None, and time.sleep(min_chunk).  Only the test
\* reads shared state, so the iteration is one step.  Any of the calls may
\* raise, which runs the except clause (emit `error`).
SimLoop(t) ==
    /\ simPc[t] = "loop"
    /\ IF ~is_simulating(state)
       THEN /\ simPc' = [simPc EXCEPT ![t] = "after"]
            /\ emitted' = <<>>
            /\ UNCHANGED simLeft
       ELSE \/ /\ simLeft[t] = 0
               /\ simPc' = [simPc EXCEPT ![t] = "after"]
               /\ emitted' = <<>>
               /\ UNCHANGED simLeft
            \/ /\ simLeft[t] > 0
               /\ simLeft' = [simLeft EXCEPT ![t] = @ - 1]
               /\ \/ /\ simPc' = [simPc EXCEPT ![t] = "loop"]
                     /\ emitted' \in {<<>>, <<"update_transcription">>}
                  \/ /\ simPc' = [simPc EXCEPT ![t] = "fin_check"]
                     /\ emitted' = <<"error">>
            \/ /\ simPc' = [simPc EXCEPT ![t] = "fin_check"]
               /\ emitted' = <<"error">>
               /\ UNCHANGED simLeft
    /\ SimStep /\ setCall' = NoCall
    /\ UNCHANGED <<state, simWf>>

\* after the loop: if is_simulating(): emit "Simulation completed."
SimAfter(t) ==
    /\ simPc[t] = "after"
    /\ simPc' = [simPc EXCEPT ![t] = "fin_check"]
    /\ emitted' = IF is_simulating(state)
                  THEN <<"update_status:Simulation completed.">> ELSE <<>>
    /\ SimStep /\ setCall' = NoCall
    /\ UNCHANGED <<state, simLeft, simWf>>

\* finally: if self.state_manager.is_simulating():
SimFinCheck(t) ==
    /\ simPc[t] = "fin_check"
    /\ simPc' = [simPc EXCEPT ![t] =
                   IF is_simulating(state) THEN "fin_set" ELSE "fin_emit"]
    /\ emitted' = <<>>
    /\ SimStep /\ setCall' = NoCall
    /\ UNCHANGED <<state, simLeft, simWf>>

\* finally: self.state_manager.set_state(AppState.IDLE)
SimFinSet(t) ==
    /\ simPc[t] = "fin_set"
    /\ simPc' = [simPc EXCEPT ![t] = "fin_emit"]
    /\ setCall' = Call(state, "IDLE")
    /\ state' = set_state(state, "IDLE").state
    /\ emitted' = <<>>
    /\ SimStep
    /\ UNCHANGED <<simLeft, simWf>>

\* a teardown that forgets wf.close()
sim_close_forgotten(wf) == wf

\* the file handle after `if wf: wf.close()`
sim_close(wf) == IF wf = "open" THEN "closed" ELSE wf

\* finally: emit "simulation_ended"; if wf: wf.close(); the bounded join of
\* a newer simulation thread changes nothing.  The thread returns; `exited`
\* tells in what condition it left its file handle.
SimFinEmit(t) ==
    /\ simPc[t] = "fin_emit"
    /\ emitted' = <<"simulation_ended">>
    /\ exited' = Exit("simulation", t, sim_close(simWf[t]))
    /\ UNCHANGED extVars
    /\ simPc' = [simPc EXCEPT ![t] = "none"]
    /\ simWf' = [simWf EXCEPT ![t] = "none"]
    /\ simLeft' = [simLeft EXCEPT ![t] = 0]
    /\ ret' = NoRet
    /\ setCall' = NoCall
    /\ UNCHANGED <<state, mainVars, recVars, tsVars>>

SimulationThread(t) ==
    \/ SimOpen(t)
    \/ SimLoop(t)
    \/ SimAfter(t)
    \/ SimFinCheck(t)
    \/ SimFinSet(t)
    \/ SimFinEmit(t)

\* ------------------------------ TranscriptionService.process_audio_chunk
\* the metrics after the part of process_audio_chunk that follows the three
\* timed calls, for a result whose segment start is not None (`usable`) and
\* whose text has `len` characters, read at time `now`
after_result(d, usable, len, now) ==
    IF ~usable THEN d
    ELSE LET d1 == update_performance_metrics(d, <<"frames_processed">>, 1)
             d2 == update_performance_metrics(d1, <<"ui_updates">>, 1)
             d3 == IF <<"last_update", "_time">> \in DOMAIN d2
                   THEN update_performance_metrics(
                            d2, <<"time_between_updates">>,
                            now - d2[<<"last_update", "_time">>])
                   ELSE d2
             d4 == update_performance_metrics(d3, <<"last_update", "_time">>, now)
         IN  IF len > 0
             THEN update_performance_metrics(d4, <<"transcript_length">>, len)
             ELSE d4

\* the except clause of process_audio_chunk
on_chunk_error(d) == update_performance_metrics(d, <<"errors">>, 1)

\* process_audio_chunk(data) with len(data) = size; the conversion, the
\* insert and the processing take tc, ta and tp ticks; `fail` names the
\* call that raises, if any
ProcessAudioChunk ==
    /\ nChunks < MaxChunks
    /\ \E size \in {2}, tc \in 1..MaxDuration, ta \in 1..MaxDuration,
          tp \in 1..MaxDuration, usable \in BOOLEAN, len \in 0..1,
          fail \in {"none", "array_conversion", "api_call", "processing"} :
       LET d0 == update_performance_metrics(
                     update_performance_metrics(
                         performance_metrics, <<"chunk_size">>, size),
                     <<"total_", "processed_bytes">>, size)
           d1 == track_processing_time(d0, "array_conversion", tc)
           d2 == track_processing_time(d1, "api_call", ta)
           d3 == track_processing_time(d2, "processing", tp)
           now == clock + tc + ta + tp
           d4 == after_result(d3, usable, len, now)
           d5 == update_performance_metrics(d4, <<"total_", "chunk", "_time">>,
                                            ta + tp)
       IN
       /\ nChunks' = nChunks + 1
       /\ CASE fail = "array_conversion" ->
                 /\ performance_metrics' = on_chunk_error(d0)
                 /\ clock' = clock + tc
                 /\ UNCHANGED sumTime
            [] fail = "api_call" ->
                 /\ performance_metrics' = on_chunk_error(d1)
                 /\ clock' = clock + tc + ta
                 /\ sumTime' = [sumTime EXCEPT !["array_conversion"] = @ + tc]
            [] fail = "processing" ->
                 /\ performance_metrics' = on_chunk_error(d2)
                 /\ clock' = now
                 /\ sumTime' = [sumTime EXCEPT !["array_conversion"] = @ + tc,
                                               !["api_call"] = @ + ta]
            [] OTHER ->
                 /\ performance_metrics' = d5
                 /\ clock' = now
                 /\ sumTime' = [sumTime EXCEPT !["array_conversion"] = @ + tc,
                                               !["api_call"] = @ + ta,
                                               !["processing"] = @ + tp,
                                               !["chunk"] = @ + ta + tp]
       /\ nErrors' = IF fail = "none" THEN nErrors ELSE nErrors + 1
       /\ emitted' = IF fail = "none" THEN <<>> ELSE <<"error">>
       /\ ret' = Ret("process_audio_chunk", state,
                     IF fail = "none" THEN "result" ELSE "None")
    /\ setCall' = NoCall
    /\ exited' = NoExit
    /\ UNCHANGED extVars
    /\ UNCHANGED <<state, mainVars, recVars, simVars>>

\* ---------------------------------------------- StateManager, called directly
\* set_state(new) called by any client of the StateManager
SetState(new) ==
    /\ Len(setHistory) <= MaxSetCalls
    /\ setCall' = Call(state, new)
    /\ state' = set_state(state, new).state
    /\ setHistory' = Append(setHistory, state')
    /\ ret' = NoRet
    /\ emitted' = <<>>
    /\ exited' = NoExit
    /\ UNCHANGED extVars
    /\ UNCHANGED <<mainPc, mainPre, recVars, simVars, tsVars>>

\* ----------------------------------------- AudioProcessor: saving a session
\* the guard of save_recording: `if not self.frames`
no_frames_ignored(fr) == FALSE

no_frames(fr) == fr = <<>>

\* what can happen after the guard: plot_data() raises (it is outside the
\* try), wave.open(file_path, "wb") raises before the file exists, a call
\* inside the with block raises after wave.open has created or truncated the
\* file, or everything is written
SaveOutcomes == {"plot_raises", "open_fails", "write_fails", "saved"}

\* save_recording(file_path)
SaveRecording ==
    /\ mainPc = "idle"
    /\ \E out \in SaveOutcomes :
       IF no_frames(frames)
       THEN /\ emitted' = <<"error">>
            /\ ret' = Ret("save_recording", state, "False")
            /\ UNCHANGED wav_file
       ELSE CASE out = "plot_raises" ->
                 /\ emitted' = <<>>
                 /\ ret' = Ret("save_recording", state, "raise")
                 /\ UNCHANGED wav_file
              [] out = "open_fails" ->
                 /\ emitted' = <<"error">>
                 /\ ret' = Ret("save_recording", state, "False")
                 /\ UNCHANGED wav_file
              [] out = "write_fails" ->
                 /\ emitted' = <<"error">>
                 /\ ret' = Ret("save_recording", state, "False")
                 /\ wav_file' = "partial"
              [] out = "saved" ->
                 /\ emitted' = <<"update_status:Recording saved">>
                 /\ ret' = Ret("save_recording", state, "True")
                 /\ wav_file' = "complete"
    /\ setCall' = NoCall
    /\ exited' = NoExit
    /\ UNCHANGED <<cbVars, umVars, evVars>>
    /\ UNCHANGED <<state, mainVars, recVars, simVars, tsVars, playVars,
                   workVars>>

\* clear_recorded_frames()
ClearRecordedFrames ==
    /\ mainPc = "idle"
    /\ frames # <<>>
    /\ frames' = <<>>
    /\ ret' = Ret("clear_recorded_frames", state, "None")
    /\ setCall' = NoCall
    /\ emitted' = <<>>
    /\ exited' = NoExit
    /\ UNCHANGED extVars
    /\ UNCHANGED <<state, mainVars, capPc, capData, streamOpen, stream,
                   record_thread, audio_queue, maxsize, hwFrames, volume_set,
                   volume_queue, simVars, tsVars>>

\* ------------------------------------------------ AudioProcessor: playback
\* play_audio_file(file_path, on_complete): the assert, then a new daemon
\* thread; the file has n chunks
PlayAudioFile(Ids) ==
    /\ mainPc = "idle"
    /\ IF state # "PLAYING"
       THEN /\ ret' = Ret("play_audio_file", state, "raise")
            /\ UNCHANGED playVars
       ELSE \E t \in Ids, n \in 0..MaxFileChunks, cb \in BOOLEAN :
            /\ playPc[t] = "none"
            /\ \A u \in Ids : playPc[u] = "none" => t <= u
            /\ playPc' = [playPc EXCEPT ![t] = "open_wf"]
            /\ playLeft' = [playLeft EXCEPT ![t] = n]
            /\ playCb' = [playCb EXCEPT ![t] = cb]
            /\ ret' = Ret("play_audio_file", state, "True")
            /\ UNCHANGED <<playStream, playWf, playCalls, playEnd>>
    /\ setCall' = NoCall
    /\ emitted' = <<>>
    /\ exited' = NoExit
    /\ UNCHANGED <<cbVars, umVars, evVars>>
    /\ UNCHANGED <<state, mainVars, recVars, simVars, tsVars, fsVars, workVars>>

\* what every step of a playback thread leaves alone
PlayStep ==
    /\ ret' = NoRet
    /\ exited' = NoExit
    /\ UNCHANGED <<cbVars, umVars, evVars>>
    /\ UNCHANGED <<mainVars, recVars, simVars, tsVars, fsVars, workVars,
                   playCb>>

\* _audio_consistency_check and wave.open: either raises (the check emits
\* `error` before it re-raises)
PlayOpenWf(t) ==
    /\ playPc[t] = "open_wf"
    /\ \/ /\ playWf' = [playWf EXCEPT ![t] = "open"]
          /\ playPc' = [playPc EXCEPT ![t] = "open_stream"]
          /\ emitted' = <<>>
          /\ UNCHANGED playEnd
       \/ /\ playPc' = [playPc EXCEPT ![t] = "except"]
          /\ playEnd' = [playEnd EXCEPT ![t] = "error"]
          /\ \E e \in {<<>>, <<"error">>} : emitted' = e
          /\ UNCHANGED playWf
    /\ setCall' = NoCall
    /\ PlayStep
    /\ UNCHANGED <<state, playLeft, playStream, playCalls>>

\* self.audio.open(output=True) and the first readframes
PlayOpenStream(t) ==
    /\ playPc[t] = "open_stream"
    /\ \/ /\ playStream' = [playStream EXCEPT ![t] = "open"]
          /\ playPc' = [playPc EXCEPT ![t] = "loop"]
          /\ UNCHANGED playEnd
       \/ /\ playPc' = [playPc EXCEPT ![t] = "except"]
          /\ playEnd' = [playEnd EXCEPT ![t] = "error"]
          /\ UNCHANGED playStream
    /\ setCall' = NoCall
    /\ emitted' = <<>>
    /\ PlayStep
    /\ UNCHANGED <<state, playLeft, playWf, playCalls>>

\* `while data and self.state_manager.is_playing()`
PlayLoop(t) ==
    /\ playPc[t] = "loop"
    /\ IF playLeft[t] = 0
       THEN /\ playPc' = [playPc EXCEPT ![t] = "cleanup"]
            /\ playEnd' = [playEnd EXCEPT ![t] = "eof"]
       ELSE IF is_playing(state)
       THEN /\ playPc' = [playPc EXCEPT ![t] = "write"]
            /\ UNCHANGED playEnd
       ELSE /\ playPc' = [playPc EXCEPT ![t] = "cleanup"]
            /\ playEnd' = [playEnd EXCEPT ![t] = "stopped"]
    /\ setCall' = NoCall
    /\ emitted' = <<>>
    /\ PlayStep
    /\ UNCHANGED <<state, playLeft, playStream, playWf, playCalls>>

\* stream.write(data); data = wf.readframes(...): either raises
PlayWrite(t) ==
    /\ playPc[t] = "write"
    /\ \/ /\ playLeft' = [playLeft EXCEPT ![t] = @ - 1]
          /\ playPc' = [playPc EXCEPT ![t] = "loop"]
          /\ UNCHANGED playEnd
       \/ /\ playPc' = [playPc EXCEPT ![t] = "except"]
          /\ playEnd' = [playEnd EXCEPT ![t] = "error"]
          /\ UNCHANGED playLeft
    /\ setCall' = NoCall
    /\ emitted' = <<>>
    /\ PlayStep
    /\ UNCHANGED <<state, playStream, playWf, playCalls>>

\* stream.stop_stream(); stream.close(); wf.close()
PlayCleanup(t) ==
    /\ playPc[t] = "cleanup"
    /\ playStream' = [playStream EXCEPT ![t] = "closed"]
    /\ playWf' = [playWf EXCEPT ![t] = "closed"]
    /\ playPc' = [playPc EXCEPT ![t] = "fin_check"]
    /\ setCall' = NoCall
    /\ emitted' = <<>>
    /\ PlayStep
    /\ UNCHANGED <<state, playLeft, playCalls, playEnd>>

\* `if self.state_manager.current_state == AppState.PLAYING`
PlayFinCheck(t) ==
    /\ playPc[t] = "fin_check"
    /\ playPc' = [playPc EXCEPT ![t] =
                     IF state = "PLAYING" THEN "fin_set" ELSE "callback"]
    /\ setCall' = NoCall
    /\ emitted' = <<>>
    /\ PlayStep
    /\ UNCHANGED <<state, playLeft, playStream, playWf, playCalls, playEnd>>

\* `self.state_manager.set_state(AppState.IDLE)`
PlayFinSet(t) ==
    /\ playPc[t] = "fin_set"
    /\ setCall' = Call(state, "IDLE")
    /\ state' = set_state(state, "IDLE").state
    /\ playPc' = [playPc EXCEPT ![t] = "callback"]
    /\ emitted' = <<>>
    /\ PlayStep
    /\ UNCHANGED <<playLeft, playStream, playWf, playCalls, playEnd>>

\* the calls of on_complete on the normal path: `if on_complete: on_complete()`
on_complete_calls(cb) == IF cb THEN 1 ELSE 0

\* the end of the try block: the callback, then the thread returns
PlayCallback(t) ==
    /\ playPc[t] = "callback"
    /\ playCalls' = [playCalls EXCEPT ![t] = @ + on_complete_calls(playCb[t])]
    /\ playPc' = [playPc EXCEPT ![t] = "done"]
    /\ setCall' = NoCall
    /\ emitted' = <<>>
    /\ PlayStep
    /\ UNCHANGED <<state, playLeft, playStream, playWf, playEnd>>

\* `except Exception`: logs, set_state(IDLE), and the thread returns
PlayExcept(t) ==
    /\ playPc[t] = "except"
    /\ setCall' = Call(state, "IDLE")
    /\ state' = set_state(state, "IDLE").state
    /\ playPc' = [playPc EXCEPT ![t] = "done"]
    /\ emitted' = <<>>
    /\ PlayStep
    /\ UNCHANGED <<playLeft, playStream, playWf, playCalls, playEnd>>

\* _play_audio_thread(file_path, on_complete)
PlaybackThread(t) ==
    \/ PlayOpenWf(t)
    \/ PlayOpenStream(t)
    \/ PlayLoop(t)
    \/ PlayWrite(t)
    \/ PlayCleanup(t)
    \/ PlayFinCheck(t)
    \/ PlayFinSet(t)
    \/ PlayCallback(t)
    \/ PlayExcept(t)

\* toggle_pause, statement by statement, for callers that do not have the
\* state to themselves.  First `current_state = self.state_manager
\* .current_state`: the GUI thread keeps what it read in mainPre.
TogglePauseRead ==
    /\ mainPc = "idle"
    /\ mainPc' = "toggle_set"
    /\ mainPre' = state
    /\ ret' = NoRet
    /\ setCall' = NoCall
    /\ emitted' = <<>>
    /\ exited' = NoExit
    /\ UNCHANGED <<cbVars, umVars, evVars, fsVars, playVars, workVars>>
    /\ UNCHANGED <<state, setHistory, recVars, simVars, tsVars>>

\* then the branch on the value read: set_state on the state as it is now,
\* its result not looked at, and `return True`; or `return False`
TogglePauseSet ==
    /\ mainPc = "toggle_set"
    /\ mainPc' = "idle"
    /\ LET to == toggle_target(mainPre) IN
       IF to = "none"
       THEN /\ ret' = Ret("toggle_pause", mainPre, "False")
            /\ setCall' = NoCall
            /\ UNCHANGED state
       ELSE /\ setCall' = Call(state, to)
            /\ state' = set_state(state, to).state
            /\ ret' = Ret("toggle_pause", mainPre, "True")
    /\ emitted' = <<>>
    /\ exited' = NoExit
    /\ UNCHANGED <<cbVars, umVars, evVars, fsVars, playVars, workVars>>
    /\ UNCHANGED <<setHistory, mainPre, recVars, simVars, tsVars>>

\* ------------------------------------- TranscriptionService: the worker
\* start_transcription(audio_processor): False unless is_recording(), else a
\* new daemon thread and no return value; the model follows at most `limit`
\* live threads
StartTranscription(limit) ==
    /\ mainPc = "idle"
    /\ IF ~is_recording(state)
       THEN /\ ret' = Ret("start_transcription", state, "False")
            /\ UNCHANGED workPc
       ELSE \E t \in WorkIds :
            /\ LiveThreads < limit
            /\ workPc[t] = "none"
            /\ \A u \in WorkIds : workPc[u] = "none" => t <= u
            /\ workPc' = [workPc EXCEPT ![t] = "start"]
            /\ ret' = Ret("start_transcription", state, "None")
    /\ setCall' = NoCall
    /\ emitted' = <<>>
    /\ exited' = NoExit
    /\ UNCHANGED <<cbVars, umVars, evVars>>
    /\ UNCHANGED <<state, mainVars, recVars, simVars, tsVars, fsVars, playVars,
                   workData>>

\* what every step of a worker leaves alone
WorkStep ==
    /\ ret' = NoRet
    /\ setCall' = NoCall
    /\ UNCHANGED <<cbVars, umVars, evVars>>
    /\ UNCHANGED <<state, mainVars, simVars, fsVars, playVars>>
    /\ UNCHANGED <<capPc, capData, streamOpen, stream, record_thread, frames,
                   maxsize, hwFrames, volume_set, volume_queue>>

\* the value of the "errors" metric, 0 while it has never been written
errors == IF <<"errors">> \in DOMAIN performance_metrics
          THEN performance_metrics[<<"errors">>] ELSE 0

\* the timeouts counted so far under "queue_empty_count"
queue_empty_count ==
    IF <<"queue_empty", "_count">> \in DOMAIN performance_metrics
    THEN performance_metrics[<<"queue_empty", "_count">>] ELSE 0

\* update_performance_metrics("thread_start_time", ...)
WorkStart(t) ==
    /\ workPc[t] = "start"
    /\ performance_metrics' =
          update_performance_metrics(performance_metrics,
                                     <<"thread_start", "_time">>, clock)
    /\ workPc' = [workPc EXCEPT ![t] = "loop"]
    /\ emitted' = <<>>
    /\ exited' = NoExit
    /\ WorkStep
    /\ UNCHANGED <<audio_queue, clock, nChunks, nErrors, sumTime, workData>>

\* `while audio_processor.state_manager.is_recording()`
WorkLoop(t) ==
    /\ workPc[t] = "loop"
    /\ workPc' = [workPc EXCEPT ![t] =
                     IF is_recording(state) THEN "get" ELSE "end"]
    /\ emitted' = <<>>
    /\ exited' = NoExit
    /\ WorkStep
    /\ UNCHANGED <<audio_queue, tsVars, workData>>

\* data = audio_queue.get(timeout=0.5) and the two wait metrics; on an
\* empty queue the timeout, queue.Empty, and "queue_empty_count"
WorkGet(t) ==
    /\ workPc[t] = "get"
    /\ IF audio_queue # <<>>
       THEN /\ workData' = [workData EXCEPT ![t] = Head(audio_queue)]
            /\ audio_queue' = Tail(audio_queue)
            /\ performance_metrics' =
                  update_performance_metrics(
                      update_performance_metrics(
                          performance_metrics, <<"queue_wait", "_times">>, 0),
                      <<"last_queue_wait">>, 0)
            /\ workPc' = [workPc EXCEPT ![t] = "process"]
       ELSE /\ queue_empty_count < MaxTimeouts
            /\ performance_metrics' =
                  update_performance_metrics(
                      performance_metrics, <<"queue_empty", "_count">>, 1)
            /\ workPc' = [workPc EXCEPT ![t] = "loop"]
            /\ UNCHANGED <<workData, audio_queue>>
    /\ emitted' = <<>>
    /\ exited' = NoExit
    /\ WorkStep
    /\ UNCHANGED <<clock, nChunks, nErrors, sumTime>>

\* the `except Exception` clause of the worker's loop
on_worker_error(d) == update_performance_metrics(d, <<"errors">>, 1)

\* the rest of the iteration: process_audio_chunk(data), whose timed calls
\* take less than a clock tick each and of which `fail` raises, if any;
\* "last_chunk_process_time" with update_ui; for a usable result the
\* `update_transcription` event, whose listener may raise into the
\* worker's own except clause
WorkProcess(t) ==
    /\ workPc[t] = "process"
    /\ \E usable \in BOOLEAN, listener_raises \in BOOLEAN,
          fail \in {"none", "api_call", "processing"} :
       LET d0 == update_performance_metrics(
                     update_performance_metrics(
                         performance_metrics, <<"chunk_size">>, 2),
                     <<"total_", "processed_bytes">>, 2)
           d1 == track_processing_time(d0, "array_conversion", 0)
           d2 == track_processing_time(d1, "api_call", 0)
           d3 == track_processing_time(d2, "processing", 0)
           d4 == after_result(d3, usable, 1, clock)
           d5 == update_performance_metrics(d4, <<"total_", "chunk", "_time">>, 0)
           dchunk == CASE fail = "api_call" -> on_chunk_error(d1)
                       [] fail = "processing" -> on_chunk_error(d2)
                       [] OTHER -> d5
           dlast == update_performance_metrics(
                        dchunk, <<"last_chunk_process", "_time">>, 0)
           raised == fail = "none" /\ usable /\ listener_raises
       IN
       /\ (fail # "none" => ~usable /\ ~listener_raises)
       /\ (~usable => ~listener_raises)
       /\ performance_metrics' = IF raised THEN on_worker_error(dlast) ELSE dlast
       /\ UNCHANGED <<clock, sumTime>>
       /\ nChunks' = nChunks + 1
       /\ nErrors' = IF fail # "none" \/ raised THEN nErrors + 1 ELSE nErrors
       /\ emitted' =
            (IF fail # "none" THEN <<"error">> ELSE <<>>)
              \o <<"update_performance_metrics">>
              \o (IF fail = "none" /\ usable
                  THEN <<"update_transcription">> ELSE <<>>)
              \o (IF raised THEN <<"error">> ELSE <<>>)
    /\ workPc' = [workPc EXCEPT ![t] = "loop"]
    /\ workData' = [workData EXCEPT ![t] = 0]
    /\ exited' = NoExit
    /\ WorkStep
    /\ UNCHANGED audio_queue

\* after the loop: "thread_running_time" with update_ui, and the thread
\* returns
WorkEnd(t) ==
    /\ workPc[t] = "end"
    /\ performance_metrics' =
          update_performance_metrics(performance_metrics,
                                     <<"thread_running", "_time">>, clock)
    /\ workPc' = [workPc EXCEPT ![t] = "none"]
    /\ emitted' = <<"update_performance_metrics">>
    /\ exited' = Exit("worker", t, "returned")
    /\ WorkStep
    /\ UNCHANGED <<audio_queue, clock, nChunks, nErrors, sumTime, workData>>

\* _transcription_thread(audio_processor)
TranscriptionThread(t) ==
    \/ WorkStart(t)
    \/ WorkLoop(t)
    \/ WorkGet(t)
    \/ WorkProcess(t)
    \/ WorkEnd(t)

\* ------------------------- StateManager constructed with a change callback
\* the call `self._state_change_callback(old_state, new_state)`; `seen` is
\* the current_state the callback finds
notify_swapped(log, old, new, seen) ==
    Append(log, [old |-> new, new |-> old, seen |-> seen])

notify(log, old, new, seen) ==
    Append(log, [old |-> old, new |-> new, seen |-> seen])

\* set_state(new) up to the assignment: the table check and its
\* `return False`, else old_state = current, current = new_state
SetStateAssign(new) ==
    /\ mainPc = "idle"
    /\ Len(setHistory) <= MaxSetCalls
    /\ setCall' = Call(state, new)
    /\ state' = set_state(state, new).state
    /\ setHistory' = Append(setHistory, state')
    /\ IF set_state(state, new).ok
       THEN /\ mainPc' = "set_notify"
            /\ mainPre' = state
            /\ mainArg' = new
            /\ ret' = NoRet
       ELSE /\ ret' = Ret("set_state", state, "False")
            /\ UNCHANGED <<mainPc, mainPre, mainArg>>
    /\ emitted' = <<>>
    /\ exited' = NoExit
    /\ UNCHANGED <<recVars, simVars, tsVars, fsVars, playVars, workVars, cb_log,
                   umVars, evVars>>

\* the rest of set_state: the callback, which returns or raises, and
\* `return True`
SetStateNotify ==
    /\ mainPc = "set_notify"
    /\ cb_log' = notify(cb_log, mainPre, mainArg, state)
    /\ \E raises \in BOOLEAN :
          ret' = Ret("set_state", mainPre, IF raises THEN "raise" ELSE "True")
    /\ mainPc' = "idle"
    /\ setCall' = NoCall
    /\ emitted' = <<>>
    /\ exited' = NoExit
    /\ UNCHANGED <<state, setHistory, mainPre, mainArg, recVars, simVars, tsVars,
                   fsVars, playVars, workVars, umVars, evVars>>

\* ------------------- TranscriptionService.update_performance_metrics, alone
\* one metric name for each branch of the method
MetricNames ==
    { <<"queue_wait", "_times">>, <<"last_update", "_time">>,
      <<"total_", "processed_bytes">>, <<"queue_empty", "_count">>,
      <<"errors">> }

\* what is left of an update that raises: a "_times" list has its new
\* value appended before the average fails, every other branch raises
\* before it stores
failed_update(d, name, value) ==
    IF EndsWith(name, "_times")
    THEN Store(d, name, Append(IF name \in DOMAIN d THEN d[name] ELSE <<>>, value))
    ELSE d

\* the end of the try block: `if update_ui: self.events.emit(...)`
ui_event_always(ui, failed) == <<"update_performance_metrics">>

ui_event(ui, failed) ==
    IF ui /\ ~failed THEN <<"update_performance_metrics">> ELSE <<>>

\* update_performance_metrics(metric_name, value, update_ui); an exception
\* inside is caught and logged
UpdatePerformanceMetrics ==
    /\ clock < MaxUpdates
    /\ \E name \in MetricNames, value \in 1..MaxDuration, ui \in BOOLEAN,
          failed \in BOOLEAN :
       /\ performance_metrics' =
             IF failed THEN failed_update(performance_metrics, name, value)
             ELSE update_performance_metrics(performance_metrics, name, value)
       /\ emitted' = ui_event(ui, failed)
       /\ update_ui' = ui
       /\ update_failed' = failed
    /\ clock' = clock + 1
    /\ ret' = Ret("update_performance_metrics", state, "None")
    /\ setCall' = NoCall
    /\ exited' = NoExit
    /\ UNCHANGED <<state, mainVars, recVars, simVars, nChunks, nErrors, sumTime,
                   fsVars, playVars, workVars, cbVars, evVars>>

\* --------------------------------------------------------------- EventEmitter
EventNames == {"error", "update_status"}

CallbackIds == 1..MaxCallbacks

\* on(): create the list of a new event name, then append the callback
on_prepend(l, name, cb) ==
    [n \in DOMAIN l \cup {name} |->
        IF n = name THEN <<cb>> \o (IF name \in DOMAIN l THEN l[name] ELSE <<>>)
        ELSE l[n]]

on(l, name, cb) ==
    [n \in DOMAIN l \cup {name} |->
        IF n = name THEN Append(IF name \in DOMAIN l THEN l[name] ELSE <<>>, cb)
        ELSE l[n]]

\* the position of the first callback of cbs that raises, 0 when none does
RECURSIVE first_raising(_, _)
first_raising(cbs, raising) ==
    IF cbs = <<>> THEN 0
    ELSE IF Head(cbs) \in raising THEN 1
    ELSE IF first_raising(Tail(cbs), raising) = 0 THEN 0
    ELSE 1 + first_raising(Tail(cbs), raising)

\* the loop of emit(): the callbacks of the event name in list order; an
\* exception of a callback leaves the loop and emit
emit_calls(l, name, raising) ==
    IF name \notin DOMAIN l THEN <<>>
    ELSE IF first_raising(l[name], raising) = 0 THEN l[name]
    ELSE SubSeq(l[name], 1, first_raising(l[name], raising))

EventOn ==
    /\ Len(registered) < MaxListeners
    /\ \E name \in EventNames, cb \in CallbackIds :
       /\ listeners' = on(listeners, name, cb)
       /\ registered' = Append(registered, <<name, cb>>)
    /\ ret' = Ret("on", state, "None")
    /\ called' = <<>>
    /\ setCall' = NoCall /\ emitted' = <<>> /\ exited' = NoExit
    /\ UNCHANGED <<state, mainVars, recVars, simVars, tsVars, fsVars, playVars,
                   workVars, cbVars, umVars, event_name>>

EventEmit ==
    /\ \E name \in EventNames, raising \in SUBSET CallbackIds :
       /\ event_name' = name
       /\ called' = emit_calls(listeners, name, raising)
       /\ ret' = Ret("emit", state,
                     IF name \in DOMAIN listeners
                        /\ first_raising(listeners[name], raising) # 0
                     THEN "raise" ELSE "None")
    /\ setCall' = NoCall /\ emitted' = <<>> /\ exited' = NoExit
    /\ UNCHANGED <<state, mainVars, recVars, simVars, tsVars, fsVars, playVars,
                   workVars, cbVars, umVars, listeners, registered>>

\* ----------------------------------------------------------- specifications
\* All modes: every AudioProcessor call of the GUI thread, with at most
\* MaxLiveThreads capture and simulation threads alive at once.
Next ==
    \/ StartRecording(ModeIds, MaxLiveThreads)
    \/ StopRecording
    \/ StopRecordingJoin
    \/ TogglePause
    \/ ActivatePlayback
    \/ StopPlayback
    \/ StartSimulation(ModeIds, MaxLiveThreads)
    \/ StopSimulation
    \/ \E t \in ModeIds : CaptureThread(t, MaxAppFrames)
    \/ \E t \in ModeIds : SimulationThread(t)

Spec == Init /\ [][Next]_vars

\* The capture engine alone, with the capture threads of CapIds.
NextRec ==
    \/ StartRecording(CapIds, MaxCapThreads)
    \/ StopRecording
    \/ StopRecordingJoin
    \/ TogglePause
    \/ GetVolumeLevel
    \/ \E t \in CapIds : CaptureThread(t, MaxFrames)

SpecRec == InitRec /\ [][NextRec]_vars

\* The simulation engine with the simulation threads of SimIds, next to the
\* playback mode switch.
NextSim ==
    \/ StartSimulation(SimIds, MaxSimThreads)
    \/ StopSimulation
    \/ ActivatePlayback
    \/ StopPlayback
    \/ \E t \in SimIds : SimulationThread(t)

SpecSim == Init /\ [][NextSim]_vars

\* One simulation at a time, left to run: start_simulation is called in Idle
\* with no simulation thread alive, nothing stops the simulation, and the
\* other calls are those that the state refuses or that change nothing.
\* The simulation thread is a started Python thread: it is scheduled again
\* and again.
NextSimLive ==
    \/ /\ state = "IDLE"
       /\ \A t \in SimIds : ~SimAlive(t)
       /\ StartSimulation(SimIds, MaxSimThreads)
    \/ /\ state = "SIMULATING"
       /\ StartSimulation(SimIds, MaxSimThreads)
    \/ /\ state = "SIMULATING"
       /\ ActivatePlayback
    \/ StopRecording
    \/ TogglePause
    \/ StopPlayback
    \/ \E t \in SimIds : SimulationThread(t)

SpecSimLive ==
    /\ Init
    /\ [][NextSimLive]_vars
    /\ WF_vars(\E t \in SimIds : SimulationThread(t))

\* The volume meter: recording sessions with the frame queue of the
\* application, a volume queue that has or has not been set, and the GUI
\* polling get_volume_level.
InitVol == InitObjects /\ maxsize = 0 /\ volume_set \in BOOLEAN

NextVol ==
    \/ StartRecording(ModeIds, MaxLiveThreads)
    \/ StopRecording
    \/ StopRecordingJoin
    \/ TogglePause
    \/ GetVolumeLevel
    \/ \E t \in ModeIds : CaptureThread(t, MaxFrames)

SpecVol == InitVol /\ [][NextVol]_vars

\* Saving: recording sessions of the application and save_recording.
NextSave ==
    \/ StartRecording(ModeIds, MaxLiveThreads)
    \/ StopRecording
    \/ StopRecordingJoin
    \/ TogglePause
    \/ SaveRecording
    \/ ClearRecordedFrames
    \/ \E t \in ModeIds : CaptureThread(t, MaxAppFrames)

SpecSave == Init /\ [][NextSave]_vars

\* Playback: activate_playback, play_audio_file, stop_playback and the
\* playback threads.
NextPlay ==
    \/ ActivatePlayback
    \/ PlayAudioFile(PlayIds)
    \/ StopPlayback
    \/ \E t \in PlayIds : PlaybackThread(t)

SpecPlay == Init /\ [][NextPlay]_vars

\* Transcription: recording sessions feeding the frame queue, with
\* start_transcription and a worker that drains it next to the capture thread.
NextWork ==
    \/ StartRecording(ModeIds, MaxCapThreads)
    \/ StopRecording
    \/ StopRecordingJoin
    \/ TogglePause
    \/ ActivatePlayback
    \/ StopPlayback
    \/ StartTranscription(MaxCapThreads)
    \/ \E t \in ModeIds : CaptureThread(t, MaxFrames)
    \/ \E t \in WorkIds : TranscriptionThread(t)

SpecWork == Init /\ [][NextWork]_vars

\* Recording sessions restarted under lagging threads: start_recording,
\* stop_recording and start_transcription only, with up to MaxCapThreads
\* capture and worker threads alive at once.
NextRace ==
    \/ StartRecording(CapIds, MaxCapThreads)
    \/ StopRecording
    \/ StopRecordingJoin
    \/ StartTranscription(MaxCapThreads)
    \/ \E t \in CapIds : CaptureThread(t, MaxFrames)
    \/ \E t \in WorkIds : TranscriptionThread(t)

SpecRace == Init /\ [][NextRace]_vars

\* Pausing beside a playback thread: the GUI thread records, pauses and
\* plays, toggle_pause taken statement by statement, while the capture
\* thread and a playback thread that has not yet finished run on.
NextToggle ==
    \/ StartRecording(ModeIds, MaxCapThreads)
    \/ StopRecording
    \/ StopRecordingJoin
    \/ TogglePauseRead
    \/ TogglePauseSet
    \/ ActivatePlayback
    \/ PlayAudioFile(ModeIds)
    \/ StopPlayback
    \/ \E t \in ModeIds : CaptureThread(t, MaxAppFrames)
    \/ \E t \in ModeIds : PlaybackThread(t)

SpecToggle == Init /\ [][NextToggle]_vars

\* Recording sessions one after the other: start_recording is called when
\* the capture thread of the previous session has returned, so the one
\* capture thread alive is the thread of the current session.  Any frame
\* queue, bounded or not, and nothing consuming it.
SessionIds == {1}

NextSession ==
    \/ StartRecording(SessionIds, Cardinality(SessionIds))
    \/ StopRecording
    \/ StopRecordingJoin
    \/ TogglePause
    \/ \E t \in SessionIds : CaptureThread(t, MaxFrames)

SpecSession == InitRec /\ [][NextSession]_vars

\* Starting transcription.  The application is in one of the states it can
\* be in with no background thread alive: Idle; Playing, after
\* activate_playback; Recording or RecordingPaused, when the capture thread
\* of the session has died (its finally clause touches no state).  Then
\* recording calls and start_transcription, with at most MaxLiveThreads
\* capture and worker threads alive at once.
InitStart ==
    /\ state \in {"IDLE", "PLAYING", "RECORDING", "RECORDING_PAUSED"}
    /\ InitFields
    /\ maxsize = 0
    /\ volume_set = FALSE

NextStart ==
    \/ StartRecording(ModeIds, MaxLiveThreads)
    \/ StopRecording
    \/ StopRecordingJoin
    \/ StartTranscription(MaxLiveThreads)
    \/ \E t \in ModeIds : CaptureThread(t, MaxAppFrames)
    \/ \E t \in WorkIds : TranscriptionThread(t)

SpecStart == InitStart /\ [][NextStart]_vars

\* Playback left to run, from any state the application can be in with no
\* background thread alive.  A playback thread is a started Python thread
\* whose calls (stream.write, wf.readframes) return or raise, so each one is
\* scheduled again and again.  The model follows the playback threads of
\* ModeIds.
NextPlayLive ==
    \/ ActivatePlayback
    \/ PlayAudioFile(ModeIds)
    \/ StopPlayback
    \/ \E t \in ModeIds : PlaybackThread(t)

SpecPlayLive ==
    /\ InitStart
    /\ [][NextPlayLive]_vars
    /\ \A t \in ModeIds : WF_vars(PlaybackThread(t))

\* Draining the queue.  The capture thread of the session has died on a
\* failing read after it had recorded and queued some frames, the GUI has
\* taken the volume samples, and the state is still Recording or
\* RecordingPaused (the thread's handlers touch no state).  Then
\* start_transcription, toggle_pause and stop_recording; no new session is
\* started.  A transcription worker is a started Python thread whose calls
\* (the queue pop with its 0.5 s timeout, the ASR backend) return, so each
\* worker is scheduled again and again.
InitDrain ==
    /\ state \in {"RECORDING", "RECORDING_PAUSED"}
    /\ InitRest
    /\ \E k \in 0..MaxAppFrames :
          /\ hwFrames = k
          /\ frames = [i \in 1..k |-> i]
          /\ audio_queue = [i \in 1..k |-> i]
    /\ maxsize = 0
    /\ volume_set = TRUE

NextDrain ==
    \/ StartTranscription(MaxLiveThreads)
    \/ TogglePause
    \/ StopRecording
    \/ \E t \in WorkIds : TranscriptionThread(t)

SpecDrain ==
    /\ InitDrain
    /\ [][NextDrain]_vars
    /\ \A t \in WorkIds : WF_vars(TranscriptionThread(t))

\* A StateManager built with a state-change callback, driven by arbitrary
\* set_state calls.
NextCb ==
    \/ \E new \in AppState : SetStateAssign(new)
    \/ SetStateNotify

SpecCb == Init /\ [][NextCb]_vars

\* The metrics dictionary driven by direct update_performance_metrics calls.
NextUM == UpdatePerformanceMetrics

SpecUM == Init /\ [][NextUM]_vars

\* The event bus alone: subscriptions and emissions.
NextEv == EventOn \/ EventEmit

SpecEv == Init /\ [][NextEv]_vars

\* The StateManager alone, driven by arbitrary set_state calls.
NextSM == \E new \in AppState : SetState(new)

SpecSM == Init /\ [][NextSM]_vars

\* The TranscriptionService metrics, driven by process_audio_chunk.
NextTS == ProcessAudioChunk

SpecTS == Init /\ [][NextTS]_vars

\* ------------------------------------------------------------------- claims
\* the edges of the transition table as the specification lists them
TableEdges ==
    { <<"IDLE", "RECORDING">>, <<"IDLE", "PLAYING">>, <<"IDLE", "SIMULATING">>,
      <<"RECORDING", "IDLE">>, <<"RECORDING", "RECORDING_PAUSED">>,
      <<"RECORDING_PAUSED", "RECORDING">>, <<"RECORDING_PAUSED", "IDLE">>,
      <<"PLAYING", "IDLE">>, <<"SIMULATING", "IDLE">> }

\* C1: in every sequence of set_state calls from Idle, a call returns true
\* exactly when it goes along an edge of the transition table; an accepted
\* call leaves the state at its target, a rejected one (a self-transition
\* included) leaves the state where it was; so every change of the state in
\* the history of the calls follows a table edge.
C1_SetStateFollowsTable ==
    /\ setHistory[1] = "IDLE"
    /\ \A i \in 1..(Len(setHistory) - 1) :
          \/ setHistory[i + 1] = setHistory[i]
          \/ <<setHistory[i], setHistory[i + 1]>> \in TableEdges
    /\ setCall.ok # "none" =>
          /\ setCall.ok = "True" <=> <<setCall.from, setCall.to>> \in TableEdges
          /\ setCall.ok = "True" => state = setCall.to
          /\ setCall.ok = "False" => state = setCall.from
          /\ setCall.from = setCall.to => setCall.ok = "False"

\* C1 witness: after an accepted Idle -> Recording, a self-transition
\* Recording -> Recording has just been rejected.
C1_Witness ==
    /\ Len(setHistory) >= 3
    /\ setHistory[2] = "RECORDING"
    /\ setCall = [from |-> "RECORDING", to |-> "RECORDING", ok |-> "False"]

\* the states in which no recording session is active
NotRecording == {"IDLE", "PLAYING", "SIMULATING"}

\* the recording states
Recording == {"RECORDING", "RECORDING_PAUSED"}

\* C2: a start_recording call made while a recording session is active (the
\* state is Recording or RecordingPaused: no stop_recording since the last
\* accepted start, whatever toggle_pause calls came between) returns false
\* and starts no capture thread, so that no second input stream is opened.
C2_NoSecondStart ==
    [][(StartRecording(CapIds, MaxCapThreads) /\ state \in Recording)
          => /\ ret'.val = "False"
             /\ UNCHANGED <<capPc, record_thread, frames>>]_vars

\* C3: a capture thread that is about to push a frame onto a full bounded
\* frame queue is not blocked: it can take its step.
C3_PushNeverBlocks ==
    \A t \in CapIds :
        (capPc[t] = "put" /\ Full(audio_queue, maxsize)) => ENABLED CapPut(t)

\* C4: after N chunks have been processed without an error, each of
\* array_conversion_calls, api_call_calls and processing_calls equals N.
C4_CallsCountChunks ==
    (nChunks > 0 /\ nErrors = 0) =>
        \A op \in TimedOps :
            /\ <<op, "_calls">> \in DOMAIN performance_metrics
            /\ performance_metrics[<<op, "_calls">>] = nChunks

\* C5: after N chunks have been processed without an error, each
\* total_<op>_time is the sum of the durations of op over the N chunks, and
\* total_chunk_time is the sum of the chunk times.
C5_TotalsAccumulate ==
    (nChunks > 0 /\ nErrors = 0) =>
        /\ \A op \in TimedOps :
              /\ <<"total_", op, "_time">> \in DOMAIN performance_metrics
              /\ performance_metrics[<<"total_", op, "_time">>] = sumTime[op]
        /\ <<"total_", "chunk", "_time">> \in DOMAIN performance_metrics
        /\ performance_metrics[<<"total_", "chunk", "_time">>] = sumTime["chunk"]

\* C6: start_recording called in Idle returns true and leaves the state
\* Recording; toggle_pause called in Recording leaves the state
\* RecordingPaused; stop_recording called in Recording or RecordingPaused
\* returns true and leaves the state Idle.
C6_PauseThenStop ==
    /\ (ret.op = "start_recording" /\ ret.pre = "IDLE")
          => (ret.val = "True" /\ state = "RECORDING")
    /\ (ret.op = "toggle_pause" /\ ret.pre = "RECORDING")
          => state = "RECORDING_PAUSED"
    /\ (ret.op = "stop_recording" /\ ret.pre \in Recording)
          => (ret.val = "True" /\ state = "IDLE")

\* C6 witness: stop_recording, called in RecordingPaused (so after a start and
\* a pause), has just returned true and the state is Idle.
C6_Witness ==
    /\ ret = Ret("stop_recording", "RECORDING_PAUSED", "True")
    /\ state = "IDLE"

\* C7: a stop_recording call made in Idle, Playing or Simulating returns false
\* and changes neither the state, nor the capture threads and the
\* record_thread reference, nor the stream handle and the streams.
C7_StopWhenNotRecording ==
    [][(StopRecording /\ state \in NotRecording)
          => /\ ret' = Ret("stop_recording", state, "False")
             /\ mainPc' = "idle"
             /\ UNCHANGED <<state, capPc, record_thread, stream, streamOpen>>]_vars

\* C7 witness: stop_recording has just returned false in Playing, while a
\* capture thread left over from an earlier session holds an open stream.
C7_Witness ==
    /\ ret = Ret("stop_recording", "PLAYING", "False")
    /\ state = "PLAYING"
    /\ \E t \in ModeIds : CapAlive(t) /\ streamOpen[t] /\ stream = t

\* toggle_pause calls in a row the parity of which is checked
MaxToggles == 4

\* the state after k toggle_pause calls in a row, the first one made in s
RECURSIVE Toggled(_, _)
Toggled(s, k) ==
    IF k = 0 THEN s
    ELSE LET p == Toggled(s, k - 1)
         IN  IF toggle_target(p) = "none" THEN p
             ELSE set_state(p, toggle_target(p)).state

\* C8: every toggle_pause call made in Recording or RecordingPaused returns
\* true and leaves the state in the other of the two, changing nothing else;
\* so k calls in a row from Recording end in Recording when k is even and in
\* RecordingPaused when k is odd.
C8_ToggleParity ==
    /\ [](\A k \in 0..MaxToggles :
            Toggled("RECORDING", k) =
                IF k % 2 = 0 THEN "RECORDING" ELSE "RECORDING_PAUSED")
    /\ [][(TogglePause /\ state \in Recording)
            => /\ ret' = Ret("toggle_pause", state, "True")
               /\ state' = Toggled(state, 1)
               /\ state' \in Recording /\ state' # state]_vars

\* C8 witness: the second toggle_pause of a row has just returned true and
\* the state is Recording again.
C8_Witness ==
    /\ ret = Ret("toggle_pause", "RECORDING_PAUSED", "True")
    /\ setCall = [from |-> "RECORDING_PAUSED", to |-> "RECORDING", ok |-> "True"]
    /\ state = "RECORDING"

\* C9: a toggle_pause call made in Idle, Playing or Simulating returns false
\* and changes nothing: no set_state call is made and the state, the
\* threads, the streams and the buffers are as they were.
C9_ToggleNoOp ==
    [][(TogglePause /\ state \in NotRecording)
          => /\ ret' = Ret("toggle_pause", state, "False")
             /\ setCall' = NoCall
             /\ UNCHANGED <<state, mainVars, recVars, simVars, tsVars>>]_vars

\* C9 witness: toggle_pause has just returned false in Simulating.
C9_Witness ==
    /\ ret = Ret("toggle_pause", "SIMULATING", "False")
    /\ state = "SIMULATING"

\* C10: the simulation thread returns only through its teardown.  A thread
\* enters the last part of the teardown only from the test of the state, or
\* from the set_state(IDLE) it makes when the test found Simulating, and that
\* call leaves a state still Simulating at Idle.  In the step in which the
\* thread returns, exactly one `simulation_ended` is emitted and the file
\* handle is closed if it was opened; no other step emits
\* `simulation_ended`.  The state is Simulating only while a simulation
\* thread that has not yet finished that test is alive.
C10_SimulationTeardown ==
    /\ [](/\ exited.kind = "simulation"
             => /\ emitted = <<"simulation_ended">>
                /\ exited.res \in {"closed", "none"}
          /\ (\E i \in 1..Len(emitted) : emitted[i] = "simulation_ended")
             => exited.kind = "simulation"
          /\ state = "SIMULATING"
             => \E t \in SimIds :
                   simPc[t] \in {"open", "loop", "after", "fin_check", "fin_set"})
    /\ [][\A t \in SimIds :
            /\ (simPc[t] # "none" /\ simPc'[t] = "none")
               => (simPc[t] = "fin_emit" /\ exited'.kind = "simulation")
            /\ (simPc[t] # "fin_emit" /\ simPc'[t] = "fin_emit")
               => \/ simPc[t] = "fin_check" /\ state # "SIMULATING"
                  \/ simPc[t] = "fin_set" /\ setCall'.to = "IDLE"
                       /\ setCall'.ok # "none"
            /\ (simPc[t] = "fin_check" /\ simPc'[t] # "fin_check"
                  /\ state = "SIMULATING")
               => simPc'[t] = "fin_set"
            /\ (simPc[t] = "fin_set" /\ simPc'[t] # "fin_set"
                  /\ state = "SIMULATING")
               => state' = "IDLE"]_vars

\* C10 witness: a simulation thread that had opened its file has just
\* returned, with the file closed, the state Idle and no simulation thread
\* left.
C10_Witness ==
    /\ exited.kind = "simulation" /\ exited.res = "closed"
    /\ emitted = <<"simulation_ended">>
    /\ state = "IDLE"
    /\ \A t \in SimIds : ~SimAlive(t)

\* a simulation thread is alive
SimRunning == \E t \in SimIds : SimAlive(t)

\* start_simulation, called in Idle, has just started a simulation
SimStarted == ret = Ret("start_simulation", "IDLE", "None") /\ SimRunning

\* the thread has just left its loop at the end of the file, still Simulating
SimCompleted == emitted = <<"update_status:Simulation completed.">>

\* an exception has just been caught in the simulation thread
SimFailed == \E i \in 1..Len(emitted) : emitted[i] = "error"

C12_PublishNeverBlocks ==
    \A t \in CapIds :
        (capPc[t] = "volume" /\ volume_set /\ Full(volume_queue, VolumeSize))
            => ENABLED CapVolume(t)

\* C13: save_recording called while the session buffer is empty returns
\* False, emits exactly one event, an `error`, and leaves whatever is under
\* the requested path as it was (the file is neither created nor truncated).
C13_EmptySaveRefused ==
    [][(ret'.op = "save_recording" /\ frames = <<>>) =>
          /\ ret'.val = "False"
          /\ emitted' = <<"error">>
          /\ wav_file' = wav_file]_vars

\* an empty buffer is refused while an earlier save is on disk, untouched
C13_Witness ==
    /\ ret = Ret("save_recording", "IDLE", "False")
    /\ frames = <<>>
    /\ emitted = <<"error">>
    /\ wav_file = "complete"

\* C14: after save_recording has returned False, no partially written file
\* is under the requested path.
C14_NoPartialFile ==
    (ret.op = "save_recording" /\ ret.val = "False") => wav_file # "partial"

\* C15: a playback thread that was given an on_complete callback and has
\* ended, however it ended, has called it exactly once, and has closed its
\* output stream and its wave file.
C15_CallbackOnceAfterClose ==
    \A t \in PlayIds :
        (playPc[t] = "done" /\ playCb[t]) =>
            /\ playCalls[t] = 1
            /\ playStream[t] # "open"
            /\ playWf[t] # "open"

\* C16 (second half): a playback thread whose loop was ended by
\* stop_playback changes the application state no more.
C16_StoppedThreadLeavesState ==
    [][\A t \in PlayIds :
          (playEnd[t] = "stopped" /\ playPc'[t] # playPc[t]) => state' = state]_vars

C18_WorkerOnlyWhenRecording ==
    [][/\ (ret'.op = "start_transcription" /\ state \in NotRecording) =>
             (ret'.val = "False" /\ workPc' = workPc)
       /\ \A t \in WorkIds :
             (workPc[t] = "none" /\ workPc'[t] # "none") =>
                 (ret'.op = "start_transcription" /\ state \in Recording)]_vars

\* start_transcription refused in Idle, while the worker of the session
\* before is still alive and no second one has appeared
C18_Witness ==
    /\ ret = Ret("start_transcription", "IDLE", "False")
    /\ Cardinality({t \in WorkIds : workPc[t] # "none"}) = 1

\* C19 (first part): a step of the worker in which a chunk fails, emitting
\* `error`, raises the `errors` metric by exactly 1.
C19_ErrorsIncrementByOne ==
    [][(\E t \in WorkIds : workPc[t] = "process" /\ workPc'[t] = "loop"
                            /\ nErrors' = nErrors + 1)
          => errors' = errors + 1]_vars

\* the simulation threads alive
SimThreads == {t \in SimIds : SimAlive(t)}

\* C20: start_simulation called in Simulating changes nothing and starts no
\* thread; called in Idle it sets the state to Simulating and starts exactly
\* one simulation thread, leaving the threads already there as they are.
C20_StartSimulationOnce ==
    [][ret'.op = "start_simulation" =>
          /\ state = "SIMULATING" =>
                /\ setCall' = NoCall
                /\ UNCHANGED <<state, mainVars, recVars, simVars, tsVars,
                               extVars>>
          /\ state = "IDLE" =>
                /\ state' = "SIMULATING"
                /\ SimThreads \subseteq SimThreads'
                /\ Cardinality(SimThreads') = Cardinality(SimThreads) + 1
                /\ \A t \in SimThreads :
                      /\ simPc'[t] = simPc[t]
                      /\ simLeft'[t] = simLeft[t]
                      /\ simWf'[t] = simWf[t]]_vars

\* a second start_simulation, made while the thread of the first is
\* running, has returned and that thread is still the only one
C20_Witness ==
    /\ ret = Ret("start_simulation", "SIMULATING", "None")
    /\ state = "SIMULATING"
    /\ Cardinality(SimThreads) = 1
    /\ \E t \in SimThreads : simPc[t] \notin {"none", "open"}

C22_CallbackOnAccepted ==
    [][/\ (ret'.op = "set_state" /\ ret'.val = "True") =>
             /\ cb_log' = Append(cb_log, [old |-> ret'.pre, new |-> state',
                                          seen |-> state'])
             /\ <<ret'.pre, state'>> \in TableEdges
       /\ (ret'.op = "set_state" /\ ret'.val = "False") =>
             (cb_log' = cb_log /\ state' = state)
       /\ ret'.op # "set_state" => cb_log' = cb_log]_vars

\* Idle -> Recording has been notified, and the callback of
\* Recording -> RecordingPaused has just returned
C22_Witness ==
    /\ ret = Ret("set_state", "RECORDING", "True")
    /\ Len(cb_log) = 2
    /\ cb_log[1] = [old |-> "IDLE", new |-> "RECORDING", seen |-> "RECORDING"]
    /\ cb_log[2] = [old |-> "RECORDING", new |-> "RECORDING_PAUSED",
                    seen |-> "RECORDING_PAUSED"]

\* C23: a call of update_performance_metrics emits exactly one
\* `update_performance_metrics` event when it was made with update_ui true
\* and did not fail inside, and emits nothing otherwise; in particular a
\* call with update_ui false never emits.
C23_EmitsIffUpdateUi ==
    ret.op = "update_performance_metrics" =>
        /\ (update_ui /\ ~update_failed) =>
              emitted = <<"update_performance_metrics">>
        /\ ~(update_ui /\ ~update_failed) => emitted = <<>>

\* an update with update_ui true has emitted, after an earlier update
\* that left a metric in the dictionary
C23_Witness ==
    /\ ret.op = "update_performance_metrics"
    /\ update_ui /\ ~update_failed
    /\ emitted = <<"update_performance_metrics">>
    /\ clock >= 2

\* the callbacks registered for an event name, in the order of the on() calls
RECURSIVE RegisteredFor(_, _)
RegisteredFor(reg, name) ==
    IF reg = <<>> THEN <<>>
    ELSE (IF Head(reg)[1] = name THEN <<Head(reg)[2]>> ELSE <<>>)
         \o RegisteredFor(Tail(reg), name)

\* C24: an emit that returns has called, inside the call, exactly the
\* callbacks registered for its event name, one call for each registration
\* and in registration order, and none registered for another name; with no
\* subscriber it has called nothing. An emit never changes the subscriptions.
C24_EmitCallsSubscribersInOrder ==
    /\ (ret.op = "emit" /\ ret.val = "None") =>
          called = RegisteredFor(registered, event_name)
    /\ (ret.op = "emit" /\ RegisteredFor(registered, event_name) = <<>>) =>
          (called = <<>> /\ ret.val = "None")
    /\ \A n \in EventNames :
          /\ n \in DOMAIN listeners <=> RegisteredFor(registered, n) # <<>>
          /\ n \in DOMAIN listeners => listeners[n] = RegisteredFor(registered, n)

\* an emit of a name with two different subscribers has called both in
\* registration order (the second registered first), while another name has
\* a subscriber too
C24_Witness ==
    /\ ret = Ret("emit", "IDLE", "None")
    /\ event_name = "error"
    /\ called = <<2, 1>>
    /\ registered = <<<<"error", 2>>, <<"update_status", 1>>, <<"error", 1>>>>

\* the capture threads holding a frame they are about to push onto the
\* frame queue
Producers == {t \in CapIds : capPc[t] = "put"}

\* the transcription workers alive
Consumers == {t \in WorkIds : workPc[t] # "none"}

\* C25: whatever the interleaving of start_recording, stop_recording and
\* start_transcription with the threads, at most one capture thread is
\* producing into the frame queue and at most one worker is consuming
\* from it.
C25_OneProducerOneConsumer ==
    Cardinality(Producers) <= 1 /\ Cardinality(Consumers) <= 1

\* C26: an engine thread that has terminated, on whatever path, has left
\* nothing open of what it opened: a playback thread its output stream and
\* its wave file, a capture thread its input stream, a simulation thread
\* its wave file.
C26_ThreadsCloseWhatTheyOpened ==
    /\ \A t \in PlayIds :
          playPc[t] = "done" => (playStream[t] # "open" /\ playWf[t] # "open")
    /\ exited.kind \in {"capture", "simulation"} => exited.res # "open"

\* the events of a step include an `error` event
ErrorEmitted(ev) == \E i \in DOMAIN ev : ev[i] = "error"

\* the step in which the open or _record_frame of capture thread t raises and
\* its except clause, which touches no shared field, has run: the thread
\* goes from one of those calls to its finally clause
CapRaised(t) ==
    capPc[t] \in {"open", "read", "volume"} /\ capPc'[t] = "finally"

\* C27: a capture or playback thread whose loop failed with an exception
\* leaves its except clause having emitted an `error` event and with the
\* application state Idle.
C27_FailedLoopEmitsErrorAndIdle ==
    [][/\ \A t \in CapIds :
             CapRaised(t) => (ErrorEmitted(emitted') /\ state' = "IDLE")
       /\ \A t \in PlayIds :
             (playPc[t] = "except" /\ playPc'[t] # "except") =>
                 (ErrorEmitted(emitted') /\ state' = "IDLE")]_vars

\* C28: in every reachable state a capture input stream is open only in
\* Recording or RecordingPaused, a playback output stream only in Playing,
\* and a simulation file only in Simulating.
C28_OpenOnlyInOwnMode ==
    /\ (\E t \in CapIds : streamOpen[t]) => state \in Recording
    /\ (\E t \in PlayIds : playStream[t] = "open") => state = "PLAYING"
    /\ (\E t \in SimIds : simWf[t] = "open") => state = "SIMULATING"

WorkerAlive == \E t \in WorkIds : workPc[t] # "none"

\* a worker waits on the empty queue for a timeout beyond the MaxTimeouts
\* timeouts that are followed
TimeoutsExhausted ==
    /\ queue_empty_count >= MaxTimeouts
    /\ audio_queue = <<>>
    /\ \E t \in WorkIds : workPc[t] = "get"

\* C30: if the state leaves the recording states and stays out of them,
\* every transcription worker terminates by itself, whether the frame queue
\* is empty or not (as far as its timeouts are followed); and a worker
\* starts a queue pop only after a test that found a recording state, so
\* that after the state has left the recording states it makes at most the
\* one pop whose test came before.  A worker returns only from the end of
\* its function, which it reaches only by a test that found no recording
\* state.
C30_WorkerExitsCooperatively ==
    /\ (<>[](state \notin Recording /\ ~TimeoutsExhausted)) => <>[](~WorkerAlive)
    /\ [][\A t \in WorkIds :
             /\ (workPc[t] # "get" /\ workPc'[t] = "get") =>
                    (workPc[t] = "loop" /\ state \in Recording)
             /\ (workPc[t] # "none" /\ workPc'[t] = "none") =>
                    (workPc[t] = "end" /\ exited' = Exit("worker", t, "returned"))
             /\ (workPc[t] = "loop" /\ workPc'[t] # "loop") =>
                    workPc'[t] = (IF state \in Recording THEN "get" ELSE "end")]_vars

\* a worker has returned by itself after the recording was stopped, with a
\* frame left in the queue
C30_Witness ==
    /\ exited.kind = "worker" /\ exited.res = "returned"
    /\ state = "IDLE"
    /\ audio_queue # <<>>
    /\ queue_empty_count = 0
    /\ ~WorkerAlive

\* some playback thread has been started and has not returned
PlayAlive == \E t \in PlayIds : playPc[t] \notin {"none", "done"}

C32_EveryChunkHandedToAsr ==
    [][\A t \in SimIds :
          (simPc[t] = "loop" /\ simLeft'[t] < simLeft[t]) =>
              (simPc'[t] = "loop" /\ ~ErrorEmitted(emitted'))]_vars

\* C33: start_simulation starts a simulation thread only when its
\* transition to Simulating was accepted: called in Recording,
\* RecordingPaused or Playing it leaves the state and starts no thread.
C33_ThreadOnlyIfAccepted ==
    [][(ret'.op = "start_simulation" /\ simPc' # simPc) =>
           (state = "IDLE" /\ state' = "SIMULATING")]_vars

\* C34: a step of a playback thread changes the state only away from
\* Playing, and a step of a simulation thread only away from Simulating: a
\* thread that finishes or fails late ends no other mode's session.
C34_TeardownEndsOwnModeOnly ==
    [][/\ \A t \in PlayIds :
            (playPc[t] \notin {"none", "done"} /\ playPc'[t] # playPc[t]
                /\ state' # state) => state = "PLAYING"
       /\ \A t \in SimIds :
            (simPc[t] \notin {"none", "done"} /\ simPc'[t] # simPc[t]
                /\ state' # state) => state = "SIMULATING"]_vars

\* C35: at most one playback thread is writing to an output stream, and at
\* most one simulation thread is in the loop about to feed a chunk to the
\* ASR backend, at any time.
PlayWriters == {t \in PlayIds : playPc[t] = "write"}

SimFeeders ==
    {t \in SimIds : simPc[t] = "loop" /\ simLeft[t] > 0 /\ is_simulating(state)}

C35_OneWriterOneFeeder ==
    /\ Cardinality(PlayWriters) <= 1
    /\ Cardinality(SimFeeders) <= 1

\* C36: the cleanup of a capture thread closes no stream but the one that
\* thread opened: a thread of one session never closes the stream of
\* another session.
C36_StreamClosedByOwnSessionOnly ==
    [][\A t \in CapIds :
          (capPc[t] = "finally" /\ capPc'[t] = "none") =>
              \A u \in CapIds \ {t} : streamOpen'[u] = streamOpen[u]]_vars

\* C37: within a recording session the buffer holds every frame read since
\* start_recording, in arrival order; the frames of the session that were
\* pushed onto the queue are an order-preserving subsequence of the buffer,
\* none twice; an accepted start_recording leaves the buffer empty.
InSession(frame) == frame > hwFrames - Len(frames)

SessionPushed == SelectSeq(audio_queue, InSession)

Increasing(q) == \A i, j \in 1..Len(q) : i < j => q[i] < q[j]

Emits(ev, ems) == \E i \in 1..Len(ems) : ems[i] = ev

C38_CompletedThenNotStopped ==
    [][~(/\ Emits("update_status:Simulation completed.", emitted)
         /\ Emits("update_status:Simulation stopped.", emitted'))]_vars

\* C39: activate_playback returns True exactly when the call took the
\* state from Idle to Playing; otherwise it returns False and leaves the
\* state as it was.
C39_TrueIffNowPlaying ==
    [][ret'.op = "activate_playback" =>
          IF state = "IDLE"
          THEN ret'.val = "True" /\ state' = "PLAYING"
          ELSE ret'.val = "False" /\ state' = state]_vars

\* C40: toggle_pause returns True exactly when its set_state call changed
\* the state between Recording and RecordingPaused, also when another
\* thread has changed the state since toggle_pause read it.
C40_TrueIffToggled ==
    [][ret'.op = "toggle_pause" =>
          (ret'.val = "True" <=>
              /\ state' # state
              /\ is_recording(state)
              /\ is_recording(state'))]_vars

====
